---- MODULE Spec2Model ----
(***************************************************************************)
(* Model of src/src/sarif/sarif_file.py: SarifRun (record extraction,      *)
(* path-prefix stripping, record cache), SarifFile and SarifFileSet (the   *)
(* composite and its aggregate queries).                                   *)
(*                                                                         *)
(* Python strings are sequences of one-character strings, so that upper(), *)
(* strip(), startswith(), rfind() and slicing are computed, not assumed.   *)
(* An optional value (a missing JSON key, None) is a sequence of length 0  *)
(* or 1: <<>> is None and <<v>> is the value v.                            *)
(***************************************************************************)
EXTENDS Integers, Sequences, FiniteSets, TLC

VARIABLES
    results,              \* SarifRun.run_data["results"]
    tool,                 \* SarifRun.run_data["tool"]["driver"]["name"]
    path_prefixes_upper,  \* SarifRun._path_prefixes_upper (<<>> is None)
    cached_records,       \* SarifRun._cached_records (<<>> is None, <<l>> the list l)
    ret,                  \* the last call on the run and what it returned or raised
    lastInit,             \* the last init_path_prefix_stripping call that returned
    subdirs,              \* SarifFileSet.subdirs, per file set
    files,                \* SarifFileSet.files, per file set
    nsets,                \* number of SarifFileSet objects constructed
    nfiles,               \* number of SarifFile objects constructed
    description           \* the last get_description call and its outcome

vars == <<results, tool, path_prefixes_upper, cached_records, ret, lastInit,
          subdirs, files, nsets, nfiles, description>>

runVars == <<results, tool, path_prefixes_upper, cached_records, ret, lastInit>>

setVars == <<subdirs, files, nsets, nfiles, description>>

-----------------------------------------------------------------------------
(* Bounds of the model *)

MaxResults == 3

MaxSets == 3

MaxFiles == 3

-----------------------------------------------------------------------------
(* Strings *)

None == <<>>

Some(v) == <<v>>

SARIF_SEVERITIES == << <<"e","r","r","o","r">>,
                       <<"w","a","r","n","i","n","g">>,
                       <<"n","o","t","e">> >>

_SLASHES == {"\\", "/"}

UpperChar(c) ==
    CASE c = "a" -> "A"
      [] c = "b" -> "B"
      [] c = "c" -> "C"
      [] c = "d" -> "D"
      [] OTHER -> c

RECURSIVE Upper(_)
Upper(s) == IF s = <<>> THEN <<>> ELSE <<UpperChar(Head(s))>> \o Upper(Tail(s))

RECURSIVE LStrip(_)
LStrip(s) == IF s # <<>> /\ Head(s) = " " THEN LStrip(Tail(s)) ELSE s

RECURSIVE RStrip(_)
RStrip(s) ==
    IF s # <<>> /\ s[Len(s)] = " " THEN RStrip(SubSeq(s, 1, Len(s) - 1)) ELSE s

Strip(s) == RStrip(LStrip(s))

StartsWith(s, p) == Len(p) <= Len(s) /\ SubSeq(s, 1, Len(p)) = p

\* s[n:] for 0 <= n
From(s, n) == SubSeq(s, n + 1, Len(s))

\* s.rfind(c): the highest 0-based position of c in s, or -1
RFind(s, c) ==
    LET hits == {i \in 1..Len(s) : s[i] = c}
    IN  IF hits = {} THEN -1 ELSE (CHOOSE i \in hits : \A j \in hits : j <= i) - 1

Max(S) == CHOOSE x \in S : \A y \in S : y <= x

\* "sub in s" for strings
Contains(s, sub) ==
    \E i \in 0..(Len(s) - Len(sub)) : SubSeq(s, i + 1, i + Len(sub)) = sub

Truthy(opt) == opt # None /\ opt[1] # <<>>

-----------------------------------------------------------------------------
(* SARIF results.  A result is
     [ruleId, message, level, locations]
   level is optional; locations is a list of
     [address, uri, logicalLocations, startLine]
   where address is physicalLocation.address.fullyQualifiedName, uri is
   physicalLocation.artifactLocation.uri, startLine is
   physicalLocation.region.startLine (each optional: a key missing at any
   depth reads as None through the chained .get calls), and
   logicalLocations is optional and, when present, a list of optional
   fullyQualifiedName values.                                              *)

Location(address, uri, logical, line) ==
    [address |-> address, uri |-> uri, logicalLocations |-> logical,
     startLine |-> line]

Result(level, locations) ==
    [ruleId |-> <<"R">>, message |-> <<"m">>, level |-> level,
     locations |-> locations]

sevError == SARIF_SEVERITIES[1]

sevWarning == SARIF_SEVERITIES[2]

sevNote == SARIF_SEVERITIES[3]

\* A result whose only location source is artifactLocation.uri
UriResult(uri, level) ==
    Result(level, <<Location(None, Some(uri), None, None)>>)

\* A result with no "locations" key (or an empty list)
NoLocationResult == Result(None, <<>>)

Paths ==
    { <<"/","a","/","c">>, <<"/","a","/","d">>, <<"/","a">>,
      <<"/","A","/","C">>, <<"A","\\","c">>, <<"c">>, <<"/","c">> }

\* A result whose location has an empty uri and an empty logicalLocations
EmptySourcesResult ==
    Result(None, <<Location(None, Some(<<>>), Some(<<>>), None)>>)

RunResults ==
    {UriResult(p, None) : p \in Paths}
    \cup {NoLocationResult, EmptySourcesResult}

\* The values tried for each location source: missing, empty, a name
Sources(name) == {None, Some(<<>>), Some(name)}

LogicalSources ==
    {None, Some(<<>>), Some(<<None>>), Some(<<Some(<<>>)>>),
     Some(<<Some(<<"l">>)>>), Some(<<Some(<<"l">>), Some(<<"k">>)>>)}

ShapedResults ==
    {Result(level, <<Location(a, u, l, line)>>) :
        level \in {None, Some(sevError)},
        a \in Sources(<<"f">>), u \in Sources(<<"/","a","/","c">>),
        l \in LogicalSources, line \in {None, Some(<<"7">>)}}
    \cup {NoLocationResult}

PrefixArgs == { <<>>, << <<" ","/","a"," ">> >>, << <<"/","a","/","c">> >> }

RECURSIVE SeqsUpTo(_, _)
SeqsUpTo(S, n) ==
    IF n = 0 THEN {<<>>}
    ELSE LET shorter == SeqsUpTo(S, n - 1)
         IN  shorter \cup {Append(q, x) : q \in shorter, x \in S}

-----------------------------------------------------------------------------
(* SarifRun.result_to_record *)

\* FilePath with artifactLocation.uri tried before the address
FilePathUriFirst(result) ==
    IF result.locations = <<>> THEN None
    ELSE LET location == result.locations[1]
             logical_locations == location.logicalLocations
         IN  IF Truthy(location.uri) THEN location.uri
             ELSE IF Truthy(location.address) THEN location.address
             ELSE IF Truthy(logical_locations)
                  THEN LET fqn == logical_locations[1][1]
                       IN  IF Truthy(fqn) THEN fqn ELSE None
             ELSE None

\* lines 145-173: the location of a result, None when no source yields one
FilePath(result) ==
    IF result.locations = <<>> THEN None
    ELSE LET location == result.locations[1]
             logical_locations == location.logicalLocations
         IN  IF Truthy(location.address) THEN location.address
             ELSE IF Truthy(location.uri) THEN location.uri
             ELSE IF Truthy(logical_locations)
                  THEN LET fqn == logical_locations[1][1]
                       IN  IF Truthy(fqn) THEN fqn ELSE None
             ELSE None

\* lines 146-155
ErrorLine(result) ==
    IF result.locations = <<>> THEN <<"1">>
    ELSE LET line == result.locations[1].startLine
         IN  IF line = None THEN <<"1">> ELSE line[1]

\* lines 179-187: strip the first configured prefix that matches
RECURSIVE StripPrefix(_, _)
StripPrefix(file_path, prefixes) ==
    IF prefixes = <<>> THEN file_path
    ELSE LET prefix == Head(prefixes)
             prefixlen == Len(prefix)
         IN  IF StartsWith(Upper(file_path), prefix)
             THEN IF Len(file_path) > prefixlen
                     /\ file_path[prefixlen + 1] \in _SLASHES
                  THEN From(file_path, prefixlen + 1)
                  ELSE From(file_path, prefixlen)
             ELSE StripPrefix(file_path, Tail(prefixes))

\* lines 190-192
Severity(result) == IF result.level = None THEN sevWarning ELSE result.level[1]

\* lines 137-203: None stands for the ValueError of line 175
result_to_record(result, tool_name, prefixes) ==
    LET file_path == FilePath(result)
    IN  IF ~Truthy(file_path) THEN None
        ELSE Some([Tool |-> tool_name,
                   Location |-> StripPrefix(file_path[1], prefixes),
                   Line |-> ErrorLine(result),
                   Severity |-> Severity(result),
                   Code |-> result.ruleId \o <<" ">> \o result.message])

\* Extraction that skips a result with no location instead of raising
RECURSIVE ExtractionSkipping(_, _, _)
ExtractionSkipping(rs, tool_name, prefixes) ==
    IF rs = <<>> THEN Some(<<>>)
    ELSE LET first == result_to_record(Head(rs), tool_name, prefixes)
             rest == ExtractionSkipping(Tail(rs), tool_name, prefixes)
         IN  Some(first \o rest[1])

\* line 128: the list comprehension; None when some result raises
RECURSIVE Extraction(_, _, _)
Extraction(rs, tool_name, prefixes) ==
    IF rs = <<>> THEN Some(<<>>)
    ELSE LET first == result_to_record(Head(rs), tool_name, prefixes)
             rest == Extraction(Tail(rs), tool_name, prefixes)
         IN  IF first = None \/ rest = None THEN None
             ELSE Some(<<first[1]>> \o rest[1])

\* lines 126-129: what get_records returns (None: it raises) given the cache
RecordsGiven(cache, rs, tool_name, prefixes) ==
    IF Truthy(cache) THEN cache ELSE Extraction(rs, tool_name, prefixes)

-----------------------------------------------------------------------------
(* SarifRun.init_path_prefix_stripping *)

\* lines 76-78
RECURSIVE ExplicitPrefixes(_)
ExplicitPrefixes(path_prefixes) ==
    IF path_prefixes = <<>> THEN <<>>
    ELSE <<Upper(Strip(Head(path_prefixes)))>>
         \o ExplicitPrefixes(Tail(path_prefixes))

\* lines 83-85: one record; the prefix is optional (no separator: None)
SingleRecordPrefix(location) ==
    LET loc == Strip(location)
        slash_pos == Max({RFind(loc, slash) : slash \in _SLASHES})
    IN  IF slash_pos > -1 THEN Some(SubSeq(loc, 1, slash_pos)) ELSE None

\* lines 89-94: the inner loop over the characters of one location
Narrow(common_prefix, location) ==
    LET loc == Strip(location)
        differ == {char_pos \in 0..(Len(loc) - 1) :
                      /\ char_pos < Len(common_prefix)
                      /\ loc[char_pos + 1] # common_prefix[char_pos + 1]}
    IN  IF differ = {} THEN common_prefix
        ELSE SubSeq(common_prefix, 1,
                    CHOOSE k \in differ : \A j \in differ : k <= j)

\* lines 88-96: the outer loop over records[1:]
RECURSIVE NarrowAll(_, _)
NarrowAll(common_prefix, records) ==
    IF records = <<>> THEN common_prefix
    ELSE LET narrowed == Narrow(common_prefix, Head(records).Location)
         IN  IF narrowed = <<>> THEN narrowed
             ELSE NarrowAll(narrowed, Tail(records))

\* lines 80-98: the autotrim candidate (optional) inferred from the records
AutotrimPrefix(records) ==
    IF Len(records) = 1 THEN SingleRecordPrefix(records[1].Location)
    ELSE IF Len(records) > 1
    THEN LET common_prefix ==
                 NarrowAll(Strip(records[1].Location), Tail(records))
         IN  IF common_prefix # <<>> THEN Some(Upper(common_prefix)) ELSE None
    ELSE None

\* lines 99-102
WithAutotrim(prefixes, autotrim_prefix) ==
    IF /\ Truthy(autotrim_prefix)
       /\ ~\E i \in 1..Len(prefixes) :
              StartsWith(prefixes[i], Upper(Strip(autotrim_prefix[1])))
    THEN Append(prefixes, autotrim_prefix[1])
    ELSE prefixes

\* lines 76-103: the prefix list stored (<<>>: None), given the records
\* get_records returned at line 81 (unused when autotrim is false)
Configure(autotrim, path_prefixes, records) ==
    IF autotrim
    THEN WithAutotrim(ExplicitPrefixes(path_prefixes), AutotrimPrefix(records))
    ELSE ExplicitPrefixes(path_prefixes)

\* The cache left as get_records filled it at line 81
KeptCache(cache) == cache

\* line 105
ClearedCache(cache) == None

-----------------------------------------------------------------------------
(* Operations of a run *)

NoCall == [op |-> "none", raised |-> FALSE, val |-> <<>>]

NoInit ==
    [called |-> FALSE, autotrim |-> FALSE, path_prefixes |-> <<>>,
     records |-> None, candidate |-> None]

\* SarifRun.get_records, lines 121-129
get_records ==
    LET got == RecordsGiven(cached_records, results, tool, path_prefixes_upper)
    IN  /\ IF got = None
           THEN /\ ret' = [op |-> "get_records", raised |-> TRUE, val |-> <<>>]
                /\ UNCHANGED cached_records
           ELSE /\ ret' = [op |-> "get_records", raised |-> FALSE, val |-> got[1]]
                /\ cached_records' = got
        /\ UNCHANGED <<results, tool, path_prefixes_upper, lastInit, setVars>>

\* SarifRun.init_path_prefix_stripping, lines 68-105
init_path_prefix_stripping(autotrim, path_prefixes) ==
    LET got == IF autotrim
               THEN RecordsGiven(cached_records, results, tool,
                                 path_prefixes_upper)
               ELSE Some(<<>>)
    IN  /\ IF got = None
           THEN /\ ret' = [op |-> "init", raised |-> TRUE, val |-> <<>>]
                /\ UNCHANGED <<path_prefixes_upper, cached_records, lastInit>>
           ELSE /\ ret' = [op |-> "init", raised |-> FALSE, val |-> <<>>]
                /\ path_prefixes_upper' =
                       Configure(autotrim, path_prefixes, got[1])
                /\ cached_records' = ClearedCache(got)
                /\ lastInit' =
                       [called |-> TRUE, autotrim |-> autotrim,
                        path_prefixes |-> path_prefixes,
                        records |-> IF autotrim THEN got ELSE None,
                        candidate |-> IF autotrim THEN AutotrimPrefix(got[1])
                                      ELSE None]
        /\ UNCHANGED <<results, tool, setVars>>

RunInit(resultLists) ==
    /\ results \in resultLists
    /\ tool = "T"
    /\ path_prefixes_upper = None
    /\ cached_records = None
    /\ ret = NoCall
    /\ lastInit = NoInit

NoSets ==
    /\ subdirs = <<>>
    /\ files = <<>>
    /\ nsets = 0
    /\ nfiles = 0
    /\ description = <<>>

Init == RunInit(SeqsUpTo(RunResults, MaxResults)) /\ NoSets

Next ==
    \/ get_records
    \/ \E autotrim \in BOOLEAN, path_prefixes \in PrefixArgs :
           init_path_prefix_stripping(autotrim, path_prefixes)

Spec == Init /\ [][Next]_vars

\* Runs of a single result of every shape the fallback chain distinguishes
InitShaped == RunInit({<<r>> : r \in ShapedResults}) /\ NoSets

SpecShaped == InitShaped /\ [][Next]_vars

-----------------------------------------------------------------------------
(* Properties of a run *)

\* The records of the run extracted with no prefix stripping (None: some
\* result has no location)
Unstripped == Extraction(results, tool, None)

\* 0-based position of the last path separator of s, -1 when there is none
LastSeparator(s) ==
    LET seps == {i \in 1..Len(s) : s[i] = "/" \/ s[i] = "\\"}
    IN  IF seps = {} THEN -1 ELSE Max(seps) - 1

\* The longest string that is a prefix of every member of the set S
LongestCommonPrefix(S) ==
    LET any == CHOOSE x \in S : TRUE
        common == {k \in 0..Len(any) :
                      \A x \in S : StartsWith(x, SubSeq(any, 1, k))}
    IN  SubSeq(any, 1, Max(common))

\* The last completed call was init_path_prefix_stripping(autotrim=True)
\* and the records it read were the run's unstripped records
AutotrimOnUnstripped ==
    /\ lastInit.called
    /\ lastInit.autotrim
    /\ lastInit.records = Unstripped

\* C1: a run with one record whose location has a path separator at a
\* position > 0: after init_path_prefix_stripping(autotrim=True) with no
\* explicit prefixes, get_records returns the record with its location cut
\* to the part after the last separator, whatever the letter case.
C1_SingleRecordStripped ==
    ( /\ Len(results) = 1
      /\ AutotrimOnUnstripped
      /\ lastInit.path_prefixes = <<>>
      /\ LastSeparator(Unstripped[1][1].Location) > 0
      /\ ret.op = "get_records" )
    => /\ ~ret.raised
       /\ Len(ret.val) = 1
       /\ ret.val[1].Location =
              LET loc == Unstripped[1][1].Location
              IN  From(loc, LastSeparator(loc) + 1)

\* C2: a run with two or more records: the autotrim candidate is the longest
\* common character-by-character prefix of all record locations (stored in
\* upper case; no candidate when that prefix is empty).
C2_CandidateIsCommonPrefix ==
    (AutotrimOnUnstripped /\ Len(results) >= 2)
    => LET locs == {Unstripped[1][i].Location : i \in 1..Len(results)}
           lcp == LongestCommonPrefix(locs)
       IN  IF lcp = <<>> THEN ~Truthy(lastInit.candidate)
           ELSE lastInit.candidate = Some(Upper(lcp))

\* C3: the stored prefix configuration depends only on the run's results and
\* the arguments of the last init_path_prefix_stripping call: it is the
\* configuration inferred from the unstripped records.
C3_ConfigFromUnstripped ==
    lastInit.called
    => path_prefixes_upper =
           Configure(lastInit.autotrim, lastInit.path_prefixes,
                     IF lastInit.autotrim THEN Unstripped[1] ELSE <<>>)

\* The cache, when filled, and the list get_records last returned hold one
\* record per result, in result order, extracted under the stored prefixes
CacheCurrent ==
    LET current == Extraction(results, tool, path_prefixes_upper)
    IN  /\ cached_records # None => cached_records = current
        /\ (ret.op = "get_records" /\ ~ret.raised)
           => /\ current # None
              /\ Len(ret.val) = Len(results)
              /\ \A i \in 1..Len(results) :
                     Some(ret.val[i]) =
                         result_to_record(results[i], tool, path_prefixes_upper)

\* C4: cache correctness: get_records returns one record per result, in
\* result order, extracted under the prefix configuration currently stored,
\* and two consecutive get_records calls return equal sequences.
C4_CacheCorrect ==
    /\ []CacheCurrent
    /\ [][(ret.op = "get_records" /\ ret'.op = "get_records") => ret' = ret]_vars

C4_Witness ==
    /\ ret.op = "get_records"
    /\ ~ret.raised
    /\ Len(results) >= 2
    /\ lastInit.called
    /\ path_prefixes_upper # None
    /\ ret.val # Unstripped[1]

\* The first fullyQualifiedName of logicalLocations, when there is one
LogicalName(location) ==
    IF location.logicalLocations = None THEN None
    ELSE IF location.logicalLocations[1] = <<>> THEN None
    ELSE location.logicalLocations[1][1]

NonEmpty(source) == source # None /\ source # Some(<<>>)

\* C5: the location of a record is the first non-empty of address
\* fullyQualifiedName, artifactLocation.uri and the first logical location's
\* fullyQualifiedName, in this order (then stripped of the stored prefix).
C5_FallbackPriority ==
    (ret.op = "get_records" /\ Len(results) = 1 /\ results[1].locations # <<>>)
    => LET location == results[1].locations[1]
           a == location.address
           u == location.uri
           l == LogicalName(location)
           is(source) ==
               /\ ~ret.raised
               /\ ret.val[1].Location =
                      StripPrefix(source[1], path_prefixes_upper)
       IN  /\ NonEmpty(a) => is(a)
           /\ (~NonEmpty(a) /\ NonEmpty(u)) => is(u)
           /\ (~NonEmpty(a) /\ ~NonEmpty(u) /\ NonEmpty(l)) => is(l)

C5_Witness ==
    /\ ret.op = "get_records"
    /\ ~ret.raised
    /\ results[1].locations # <<>>
    /\ results[1].locations[1].address = Some(<<>>)
    /\ results[1].locations[1].uri = None
    /\ ret.val[1].Location = <<"l">>

\* A result with no "locations" entry or none of the three location sources
NoSource(result) ==
    \/ result.locations = <<>>
    \/ /\ ~NonEmpty(result.locations[1].address)
       /\ ~NonEmpty(result.locations[1].uri)
       /\ ~NonEmpty(LogicalName(result.locations[1]))

SomeNoSource == \E i \in 1..Len(results) : NoSource(results[i])

\* C6: when some result of the run has no location source, get_records
\* raises and returns no records, no init_path_prefix_stripping(autotrim=
\* True) completes, and a call that raises leaves the record cache and the
\* prefix configuration as they were.
C6_FailFast ==
    /\ [](SomeNoSource
          => /\ ret.op = "get_records" => (ret.raised /\ ret.val = <<>>)
             /\ lastInit.called => ~lastInit.autotrim
             /\ cached_records = None)
    /\ [][ret'.raised => UNCHANGED <<path_prefixes_upper, cached_records>>]_vars

C6_Witness ==
    /\ SomeNoSource
    /\ Len(results) >= 2
    /\ ~NoSource(results[1])
    /\ ret.op = "init"
    /\ ret.raised
    /\ path_prefixes_upper # None

-----------------------------------------------------------------------------
(* SarifFile.  A file is [abs_file_path, runs]; a run is [tool, results].
   The runs of the files of a file set are never reconfigured here, so the
   records of a run are those extracted with no prefix stripping.          *)

Severities == {SARIF_SEVERITIES[i] : i \in 1..Len(SARIF_SEVERITIES)}

RunOf(tool_name, uri, levels) ==
    [tool |-> tool_name,
     results |-> [i \in 1..Len(levels) |-> UriResult(uri, levels[i])]]

Digits == <<"1", "2", "3", "4", "5", "6", "7", "8", "9">>

\* The parsed documents handed to the k-th SarifFile, whose results are
\* located in /s/<k>: a document with no run; one with two runs (an error
\* and a result of default level; a note); one with a run whose result has
\* level "none" and a run with no result
Documents(k) ==
    LET uri == <<"/", "s", "/", Digits[k]>>
    IN  { <<>>,
          <<RunOf("T", uri, <<Some(sevError), None>>),
            RunOf("U", uri, <<Some(sevNote)>>)>>,
          <<RunOf("T", uri, <<Some(<<"n","o","n","e">>)>>),
            RunOf("U", uri, <<>>)>> }

\* lines 234-240: the k-th file constructed, from path /d/f<k>
SarifFile(k, runs) ==
    [abs_file_path |-> <<"/", "d", "/", "f", Digits[k]>>, runs |-> runs]

\* lines 242-246
FileBool(f) == f.runs # <<>>

\* lines 265-269: os.path.basename
get_file_name(f) == From(f.abs_file_path, RFind(f.abs_file_path, "/") + 1)

\* SarifRun.get_records on a run not yet configured, lines 121-129
RunRecords(run) == Extraction(run.results, run.tool, None)[1]

\* lines 31-38
_group_records_by_severity(records) ==
    [severity \in Severities |->
        SelectSeq(records, LAMBDA record : record.Severity = severity)]

\* lines 205-209
RunResultCount(run) == Len(run.results)

\* line 217: "severity in record['Severity']" is a substring test
RunCountOf(run, severity) ==
    LET records == RunRecords(run)
    IN  Cardinality({i \in 1..Len(records) :
                        Contains(records[i].Severity, severity)})

\* lines 211-219
RunCountBySeverity(run) ==
    [severity \in Severities |-> RunCountOf(run, severity)]

\* lines 310-318
RECURSIVE RunsRecords(_)
RunsRecords(runs) ==
    IF runs = <<>> THEN <<>>
    ELSE RunRecords(Head(runs)) \o RunsRecords(Tail(runs))

FileRecords(f) == RunsRecords(f.runs)

\* lines 326-330
RECURSIVE RunsResultCount(_)
RunsResultCount(runs) ==
    IF runs = <<>> THEN 0
    ELSE RunResultCount(Head(runs)) + RunsResultCount(Tail(runs))

FileResultCount(f) == RunsResultCount(f.runs)

\* lines 332-344
RECURSIVE RunsCountOf(_, _)
RunsCountOf(runs, severity) ==
    IF runs = <<>> THEN 0
    ELSE RunCountOf(Head(runs), severity) + RunsCountOf(Tail(runs), severity)

FileCountBySeverity(f) ==
    [severity \in Severities |-> RunsCountOf(f.runs, severity)]

-----------------------------------------------------------------------------
(* SarifFileSet.  File sets are numbered in the order they are constructed;
   subdirs[s] and files[s] are the lists of file set s.                    *)

\* lines 364-368, with bool(f) of each file in place of bool(self.files)
RECURSIVE FileSetBoolNonEmpty(_)
FileSetBoolNonEmpty(s) ==
    \/ \E i \in 1..Len(subdirs[s]) : FileSetBoolNonEmpty(subdirs[s][i])
    \/ \E i \in 1..Len(files[s]) : FileBool(files[s][i])

\* lines 364-368
RECURSIVE FileSetBool(_)
FileSetBool(s) ==
    \/ \E i \in 1..Len(subdirs[s]) : FileSetBool(subdirs[s][i])
    \/ files[s] # <<>>

\* lines 370-376
RECURSIVE FileSetLen(_)
RECURSIVE SubdirsLen(_)
SubdirsLen(dirs) ==
    IF dirs = <<>> THEN 0 ELSE FileSetLen(Head(dirs)) + SubdirsLen(Tail(dirs))

FileSetLen(s) ==
    SubdirsLen(subdirs[s])
    + Cardinality({i \in 1..Len(files[s]) : FileBool(files[s][i])})

\* lines 382-384 and 390-394: the files the loops over self.subdirs visit
RECURSIVE SubdirFiles(_)
SubdirFiles(dirs) ==
    IF dirs = <<>> THEN <<>> ELSE files[Head(dirs)] \o SubdirFiles(Tail(dirs))

\* lines 378-386: the files __iter__ yields, in order
FileSetIter(s) == SubdirFiles(subdirs[s]) \o files[s]

\* lines 388-395, for index >= 0: None stands for IndexError
FileSetGetItem(s, index) ==
    LET visited == SubdirFiles(subdirs[s])
        i == Len(visited)
    IN  IF index < i THEN Some(visited[index + 1])
        ELSE IF index - i < Len(files[s]) THEN Some(files[s][index - i + 1])
        ELSE None

\* The decimal digits of count, for f"{count} files"
RECURSIVE Decimal(_)
Decimal(n) ==
    IF n < 10 THEN <<IF n = 0 THEN "0" ELSE Digits[n]>>
    ELSE Decimal(n \div 10) \o Decimal(n % 10)

\* lines 397-405: None stands for the IndexError of self[0]
FileSetDescription(s) ==
    LET count == FileSetLen(s)
    IN  IF count = 1
        THEN LET first == FileSetGetItem(s, 0)
             IN  IF first = None THEN None ELSE Some(get_file_name(first[1]))
        ELSE Some(Decimal(count) \o <<" ", "f", "i", "l", "e", "s">>)

\* lines 458-468
RECURSIVE FileSetRecords(_)
RECURSIVE SubdirsRecords(_)
SubdirsRecords(dirs) ==
    IF dirs = <<>> THEN <<>>
    ELSE FileSetRecords(Head(dirs)) \o SubdirsRecords(Tail(dirs))

RECURSIVE FilesRecords(_)
FilesRecords(fs) ==
    IF fs = <<>> THEN <<>> ELSE FileRecords(Head(fs)) \o FilesRecords(Tail(fs))

FileSetRecords(s) == SubdirsRecords(subdirs[s]) \o FilesRecords(files[s])

\* lines 476-482
RECURSIVE FilesResultCount(_)
FilesResultCount(fs) ==
    IF fs = <<>> THEN 0
    ELSE FileResultCount(Head(fs)) + FilesResultCount(Tail(fs))

RECURSIVE FileSetResultCount(_)
RECURSIVE SubdirsResultCount(_)
SubdirsResultCount(dirs) ==
    IF dirs = <<>> THEN 0
    ELSE FileSetResultCount(Head(dirs)) + SubdirsResultCount(Tail(dirs))

FileSetResultCount(s) ==
    SubdirsResultCount(subdirs[s]) + FilesResultCount(files[s])

\* lines 491-492
RECURSIVE FilesCountOf(_, _)
FilesCountOf(fs, severity) ==
    IF fs = <<>> THEN 0
    ELSE RunsCountOf(Head(fs).runs, severity)
         + FilesCountOf(Tail(fs), severity)

\* lines 484-496 without the loop over self.subdirs
FileSetCountDirectFiles(s) ==
    [severity \in Severities |-> FilesCountOf(files[s], severity)]

\* lines 489-496: the sum over the subdirectories and the direct files
RECURSIVE FileSetCountOf(_, _)
RECURSIVE SubdirsCountOf(_, _)
SubdirsCountOf(dirs, severity) ==
    IF dirs = <<>> THEN 0
    ELSE FileSetCountOf(Head(dirs), severity)
         + SubdirsCountOf(Tail(dirs), severity)

FileSetCountOf(s, severity) ==
    SubdirsCountOf(subdirs[s], severity) + FilesCountOf(files[s], severity)

\* lines 484-496
FileSetCountBySeverity(s) ==
    [severity \in Severities |-> FileSetCountOf(s, severity)]

-----------------------------------------------------------------------------
(* Operations of a tree of file sets *)

\* SarifFileSet() and parent.add_dir of it, lines 360-362 and 420-424.
\* A subdirectory is attached when it is constructed; its own files and
\* subdirectories are added afterwards, which builds every ordered tree.
add_dir(parent) ==
    /\ nsets < MaxSets
    /\ nsets' = nsets + 1
    /\ subdirs' = Append([subdirs EXCEPT ![parent] = Append(@, nsets + 1)], <<>>)
    /\ files' = Append(files, <<>>)
    /\ description' = None
    /\ UNCHANGED <<nfiles, runVars>>

\* SarifFile(path, data) and s.add_file of it, lines 234-240 and 426-430
add_file(s, data) ==
    /\ nfiles < MaxFiles
    /\ nfiles' = nfiles + 1
    /\ files' = [files EXCEPT ![s] = Append(@, SarifFile(nfiles + 1, data))]
    /\ description' = None
    /\ UNCHANGED <<subdirs, nsets, runVars>>

\* SarifFileSet.get_description on the root of the tree, lines 397-405
get_description ==
    /\ description' = Some([set |-> 1, val |-> FileSetDescription(1)])
    /\ UNCHANGED <<subdirs, files, nsets, nfiles, runVars>>

InitSets ==
    /\ RunInit({<<>>})
    /\ subdirs = << <<>> >>
    /\ files = << <<>> >>
    /\ nsets = 1
    /\ nfiles = 0
    /\ description = None

NextSets ==
    \/ \E parent \in 1..nsets : add_dir(parent)
    \/ \E s \in 1..nsets, data \in Documents(nfiles + 1) : add_file(s, data)
    \/ get_description

SpecSets == InitSets /\ [][NextSets]_vars

\* The construction of the trees alone, for the queries that only read them
NextTree ==
    \/ \E parent \in 1..nsets : add_dir(parent)
    \/ \E s \in 1..nsets, data \in Documents(nfiles + 1) : add_file(s, data)

SpecTree == InitSets /\ [][NextTree]_vars

-----------------------------------------------------------------------------
(* Properties of a tree of file sets *)

\* Every file of the tree below s: depth-first through the subdirectories
\* in insertion order, then the direct files in insertion order
RECURSIVE DepthFirst(_)
DepthFirst(s) ==
    LET RECURSIVE Below(_)
        Below(dirs) ==
            IF dirs = <<>> THEN <<>>
            ELSE DepthFirst(Head(dirs)) \o Below(Tail(dirs))
    IN  Below(subdirs[s]) \o files[s]

NonEmptyFiles(s) == SelectSeq(DepthFirst(s), FileBool)

Depth2(s) ==
    \E i \in 1..Len(subdirs[s]) : subdirs[subdirs[s][i]] # <<>>

\* C7: __len__, iteration and indexed access agree on one flattened
\* sequence, depth-first: iteration yields len(set) files and set[i] is the
\* i-th file iteration yields, for 0 <= i < len(set).
C7_OneFlattenedSequence ==
    \A s \in 1..nsets :
        /\ Len(FileSetIter(s)) = FileSetLen(s)
        /\ FileSetIter(s) = DepthFirst(s)
        /\ \A i \in 0..(FileSetLen(s) - 1) :
               FileSetGetItem(s, i) = Some(FileSetIter(s)[i + 1])

\* C8: get_description on a file set of length 1 returns the name of the
\* one non-empty file of the tree; for every other length it returns
\* "<count> files"; it never fails.
C8_DescriptionOfSingleFile ==
    description # None
    => LET s == description[1].set
           count == FileSetLen(s)
       IN  IF count = 1
           THEN description[1].val = Some(get_file_name(NonEmptyFiles(s)[1]))
           ELSE description[1].val =
                    Some(Decimal(count) \o <<" ", "f", "i", "l", "e", "s">>)

\* C9 as stated: a file set of length 0 is falsy.
C9_EmptyIsFalsy ==
    \A s \in 1..nsets : FileSetLen(s) = 0 => ~FileSetBool(s)

\* C9 amended: a file set is falsy exactly when its tree holds no file at
\* all, with or without runs; so a file set of length > 0 is truthy.
C9_NoFileIsFalsy ==
    \A s \in 1..nsets :
        /\ FileSetBool(s) <=> DepthFirst(s) # <<>>
        /\ FileSetLen(s) > 0 => FileSetBool(s)

C9_Witness ==
    \E s \in 1..nsets :
        /\ subdirs[s] # <<>>
        /\ files[s] = <<>>
        /\ DepthFirst(s) # <<>>
        /\ FileSetLen(s) = 0
        /\ FileSetBool(s)

Canonical(records) ==
    \A i \in 1..Len(records) : records[i].Severity \in Severities

\* count and by_severity describe the list records
AggregatesAgree(records, count, by_severity) ==
    /\ count = Len(records)
    /\ \A severity \in Severities :
           /\ by_severity[severity] =
                  Cardinality({i \in 1..Len(records) :
                                  records[i].Severity = severity})
           /\ by_severity[severity] =
                  Len(_group_records_by_severity(records)[severity])

\* C10: at every level whose records all have a canonical severity,
\* get_records is the concatenation of the children's records (a file set:
\* subdirectories first, then direct files; a file: its runs in index
\* order), get_result_count is its length and get_result_count_by_severity
\* counts its records of each severity, as does the grouping by severity.
C10_AggregatesAgree ==
    \A s \in 1..nsets :
        /\ LET records == FileSetRecords(s)
           IN  Canonical(records)
               => /\ records = FilesRecords(DepthFirst(s))
                  /\ AggregatesAgree(records, FileSetResultCount(s),
                                     FileSetCountBySeverity(s))
        /\ \A i \in 1..Len(files[s]) :
               LET f == files[s][i]
                   records == FileRecords(f)
               IN  Canonical(records)
                   => /\ AggregatesAgree(records, FileResultCount(f),
                                         FileCountBySeverity(f))
                      /\ \A r \in 1..Len(f.runs) :
                             AggregatesAgree(RunRecords(f.runs[r]),
                                             RunResultCount(f.runs[r]),
                                             RunCountBySeverity(f.runs[r]))

C10_Witness ==
    \E s \in 1..nsets :
        /\ Depth2(s)
        /\ Canonical(FileSetRecords(s))
        /\ files[s] # <<>>
        /\ Len(FileSetRecords(s)) > Len(FilesRecords(files[s]))
        /\ Len(FilesRecords(files[s])) > 1
        /\ FileSetCountBySeverity(s)[sevNote] > 0

====
